---- MODULE Spec2Model ----
(***************************************************************************)
(* A model of the jsonapi marshalling code: Marshal, marshalOne,           *)
(* marshalMany, MarshalOnePayloadEmbedded, MarshalPayloadWithoutIncluded   *)
(* and the recursive node builder visitModelNode.                          *)
(*                                                                         *)
(* A domain object is a record of its annotated fields in declaration      *)
(* order; a struct tag is kept as the list strings.Split yields for it     *)
(* (the empty list stands for the empty tag).  The caller's memory is the  *)
(* variable heap, a function from object names to objects; a reference is  *)
(* an object name or NIL.  Output names are distinct inside one struct.    *)
(* Maps (attributes, relationships, the inclusion registry) are functions; *)
(* a nil map and an empty map are both the empty function, as both encode  *)
(* to an absent key.  The included list is kept as the set of its nodes:   *)
(* its order is Go's map iteration order.                                  *)
(***************************************************************************)
EXTENDS Integers, Sequences, FiniteSets, TLC

\* ------------------------------------------------------------------ bounds

\* Deepest chain of nested visitModelNode calls that is followed; a call
\* that would go deeper is one that never returns.
MaxDepth == 3

\* Longest root collection handed to Marshal.
MaxRoots == 2

\* ------------------------------------------------------- names and values

NIL == "nil"

Objs == {"a", "b", "c"}

annotationPrimary == "primary"
annotationClientID == "client-id"
annotationAttribute == "attr"
annotationRelation == "relation"
annotationOmitEmpty == "omitempty"
annotationISO8601 == "iso8601"
annotationRFC3339 == "rfc3339"

ErrBadJSONAPIStructTag == "Bad jsonapi struct tag format"
ErrBadJSONAPIID == "id should be either string, int(8,16,32,64) or uint(8,16,32,64)"
ErrUnexpectedType == "models should be a struct pointer or slice of struct pointers"
ErrInvalidLink == "invalid link"

IntKinds == {"int", "int8", "int16", "int32", "int64"}
UintKinds == {"uint", "uint8", "uint16", "uint32", "uint64"}

EmptyMap == [k \in {} |-> <<>>]

Put(m, k, v) == [x \in (DOMAIN m) \cup {k} |-> IF x = k THEN v ELSE m[x]]

\* new(Node)
NewNode ==
  [id |-> "", type |-> "", clientID |-> "", attributes |-> EmptyMap,
   relationships |-> EmptyMap, links |-> <<>>, meta |-> <<>>]

\* The four ways a call of the node builder can end: a node (or no node, for
\* a nil reference), an error, a panic, or never.
Ok(nodes, included) == [st |-> "ok", err |-> "", node |-> nodes, included |-> included]
Fail(e, included) == [st |-> "err", err |-> e, node |-> <<>>, included |-> included]
Diverge(included) == [st |-> "diverge", err |-> "", node |-> <<>>, included |-> included]

\* ------------------------------------------------------------- the heap

VARIABLES heap, collection, callers, pc, entry, input, idx, payload, included, result

vars == <<heap, collection, callers, pc, entry, input, idx, payload, included, result>>

\* ------------------------------------------------- helpers not in src/

Key(n) == <<n.type, n.id>>

toShallowNode(n) == [NewNode EXCEPT !.id = n.id, !.type = n.type, !.clientID = n.clientID]

appendIncluded(m, n) == Put(m, Key(n), n)

nodeMapValues(m) == {m[k] : k \in DOMAIN m}

validate(links) == IF links = <<"invalid">> THEN ErrInvalidLink ELSE ""

\* ------------------------------------------------------ visitModelNode

\* The tag's part-count contract.
BadTag(args) ==
  \/ args[1] = annotationClientID /\ Len(args) # 1
  \/ args[1] # annotationClientID /\ Len(args) < 2

\* annotationPrimary: the node with its id and type set, an error, or the
\* panic of Value.Interface on the zero Value that reflect.Indirect yields
\* for a nil pointer.
primaryField(f, args, node) ==
  IF f.kind = "string" \/ f.kind \in IntKinds \/ f.kind \in UintKinds
  THEN IF f.ptr /\ f.isNil
       THEN [st |-> "panic", err |-> "", node |-> node]
       ELSE [st |-> "ok", err |-> "",
             node |-> [node EXCEPT !.id = IF f.kind = "string" THEN f.str ELSE ToString(f.num),
                                   !.type = args[2]]]
  ELSE [st |-> "err", err |-> ErrBadJSONAPIID, node |-> node]

clientIDField(f, node) ==
  IF f.str # "" THEN [node EXCEPT !.clientID = f.str] ELSE node

HasModifier(args, m) == \E j \in 3..Len(args) : args[j] = m

\* A time is the number of seconds since the zero instant, so IsZero is
\* num = 0; the three renderings are kept apart by their first component.
formatTime(args, t) ==
  IF HasModifier(args, annotationISO8601) THEN <<"iso8601", "", t>>
  ELSE IF HasModifier(args, annotationRFC3339) THEN <<"rfc3339", "", t>>
  ELSE <<"unix", "", t>>

\* A zero time omitted only under omitempty, as for every other attribute.
timeAttributeOmitEmptyOnly(f, args, attributes) ==
  IF f.num = 0 /\ HasModifier(args, annotationOmitEmpty) THEN attributes
  ELSE Put(attributes, args[2], formatTime(args, f.num))

timeAttribute(f, args, attributes) ==
  IF f.num = 0 THEN attributes
  ELSE Put(attributes, args[2], formatTime(args, f.num))

timePtrAttribute(f, args, attributes) ==
  LET omitEmpty == HasModifier(args, annotationOmitEmpty) IN
  IF f.isNil
  THEN IF omitEmpty THEN attributes ELSE Put(attributes, args[2], <<"null", "", 0>>)
  ELSE IF f.num = 0 /\ omitEmpty THEN attributes
       ELSE Put(attributes, args[2], formatTime(args, f.num))

plainAttribute(f, args, attributes) ==
  LET omitEmpty == HasModifier(args, annotationOmitEmpty)
      isEmpty == IF f.kind = "string" THEN f.str = "" ELSE f.num = 0
  IN IF omitEmpty /\ isEmpty THEN attributes
     ELSE Put(attributes, args[2],
              IF f.kind = "string" THEN <<"string", f.str, 0>> ELSE <<f.kind, "", f.num>>)

attributeField(f, args, node) ==
  [node EXCEPT !.attributes =
     IF f.kind = "time" /\ ~f.ptr THEN timeAttribute(f, args, @)
     ELSE IF f.kind = "time" /\ f.ptr THEN timePtrAttribute(f, args, @)
     ELSE plainAttribute(f, args, @)]

\* The relation tag's omitempty: read at the third part only.
relationOmitEmpty(args) == Len(args) > 2 /\ args[3] = annotationOmitEmpty

relationOmitted(f, args) ==
  relationOmitEmpty(args) /\
    ((f.kind = "slice" /\ Len(f.refs) < 1) \/ (f.kind # "slice" /\ f.isNil))

relLinksOf(obj, name) == IF obj.relLinkable THEN <<"related", name>> ELSE <<>>
relMetaOf(obj, name) == IF obj.relMetable THEN <<"relmeta", name>> ELSE <<>>

nullRelationship == [many |-> FALSE, data |-> <<>>, links |-> <<>>, meta |-> <<>>]

\* The built node left at the relationship site instead of a reference.
sideloadOneFullNode(node, name, relationship, relLinks, relMeta, inc) ==
  [node |-> [node EXCEPT !.relationships =
               Put(@, name, [many |-> FALSE, data |-> <<relationship>>,
                             links |-> relLinks, meta |-> relMeta])],
   included |-> appendIncluded(inc, relationship)]

\* to-one, sideload: register the node and leave a reference.
sideloadOne(node, name, relationship, relLinks, relMeta, inc) ==
  [node |-> [node EXCEPT !.relationships =
               Put(@, name, [many |-> FALSE, data |-> <<toShallowNode(relationship)>>,
                             links |-> relLinks, meta |-> relMeta])],
   included |-> appendIncluded(inc, relationship)]

\* A reference left at the relationship site although nothing is sideloaded.
embedOneShallow(node, name, relationship, relLinks, relMeta, inc) ==
  [node |-> [node EXCEPT !.relationships =
               Put(@, name, [many |-> FALSE, data |-> <<toShallowNode(relationship)>>,
                             links |-> relLinks, meta |-> relMeta])],
   included |-> inc]

\* to-one, embedded: the full node at the relationship site.
embedOne(node, name, relationship, relLinks, relMeta, inc) ==
  [node |-> [node EXCEPT !.relationships =
               Put(@, name, [many |-> FALSE, data |-> <<relationship>>,
                             links |-> relLinks, meta |-> relMeta])],
   included |-> inc]

RECURSIVE appendAll(_, _)
appendAll(inc, nodes) ==
  IF nodes = <<>> THEN inc ELSE appendAll(appendIncluded(inc, Head(nodes)), Tail(nodes))

\* References left without the nodes being registered.
sideloadManyUnregistered(node, name, nodes, relLinks, relMeta, inc) ==
  [node |-> [node EXCEPT !.relationships =
               Put(@, name, [many |-> TRUE,
                             data |-> [j \in 1..Len(nodes) |-> toShallowNode(nodes[j])],
                             links |-> relLinks, meta |-> relMeta])],
   included |-> inc]

\* to-many, sideload: register every node and leave references.
sideloadMany(node, name, nodes, relLinks, relMeta, inc) ==
  [node |-> [node EXCEPT !.relationships =
               Put(@, name, [many |-> TRUE,
                             data |-> [j \in 1..Len(nodes) |-> toShallowNode(nodes[j])],
                             links |-> relLinks, meta |-> relMeta])],
   included |-> appendAll(inc, nodes)]

\* to-many, embedded.
embedMany(node, name, nodes, relLinks, relMeta, inc) ==
  [node |-> [node EXCEPT !.relationships =
               Put(@, name, [many |-> TRUE, data |-> nodes,
                             links |-> relLinks, meta |-> relMeta])],
   included |-> inc]

RECURSIVE visitModelNode(_, _, _, _)
RECURSIVE visitFields(_, _, _, _, _, _)
RECURSIVE visitModelNodeRelationships(_, _, _, _, _, _)

\* The Linkable and Metable capabilities of the model, read after the loop.
finishNode(obj, node, inc) ==
  IF obj.links # <<>> /\ validate(obj.links) # ""
  THEN Fail(validate(obj.links), inc)
  ELSE Ok(<<[node EXCEPT !.links = obj.links, !.meta = obj.meta]>>, inc)

\* A traversal that stops below the second level with an empty node.
visitModelNodeCapped(model, inc, sideload, depth) ==
  IF model = NIL THEN Ok(<<>>, inc)
  ELSE IF depth > 2 THEN Ok(<<NewNode>>, inc)
  ELSE LET r == visitFields(model, 1, NewNode, inc, sideload, depth) IN
       IF r.st # "ok" THEN r
       ELSE finishNode(heap[model], r.node[1], r.included)

visitModelNode(model, inc, sideload, depth) ==
  IF model = NIL THEN Ok(<<>>, inc)
  ELSE IF depth > MaxDepth THEN Diverge(inc)
  ELSE LET r == visitFields(model, 1, NewNode, inc, sideload, depth) IN
       IF r.st # "ok" THEN r
       ELSE finishNode(heap[model], r.node[1], r.included)

\* One to-many relationship: a node per non-nil element, in order.
visitModelNodeRelationships(refs, j, nodes, inc, sideload, depth) ==
  IF j > Len(refs) THEN Ok(nodes, inc)
  ELSE LET r == visitModelNode(refs[j], inc, sideload, depth) IN
       IF r.st # "ok" THEN r
       ELSE visitModelNodeRelationships(refs, j + 1, nodes \o r.node, r.included,
                                        sideload, depth)

\* The loop over the fields, from field i on.
visitFields(model, i, node, inc, sideload, depth) ==
  LET obj == heap[model] IN
  IF i > Len(obj.fields) THEN Ok(<<node>>, inc)
  ELSE
  LET f == obj.fields[i]
      args == f.tag
  IN
  IF args = <<>> THEN visitFields(model, i + 1, node, inc, sideload, depth)
  ELSE IF BadTag(args) THEN Fail(ErrBadJSONAPIStructTag, inc)
  ELSE IF args[1] = annotationPrimary THEN
    LET p == primaryField(f, args, node) IN
    IF p.st = "ok" THEN visitFields(model, i + 1, p.node, inc, sideload, depth)
    ELSE [st |-> p.st, err |-> p.err, node |-> <<>>, included |-> inc]
  ELSE IF args[1] = annotationClientID THEN
    visitFields(model, i + 1, clientIDField(f, node), inc, sideload, depth)
  ELSE IF args[1] = annotationAttribute THEN
    visitFields(model, i + 1, attributeField(f, args, node), inc, sideload, depth)
  ELSE IF args[1] = annotationRelation THEN
    IF relationOmitted(f, args)
    THEN visitFields(model, i + 1, node, inc, sideload, depth)
    ELSE
    LET relLinks == relLinksOf(obj, args[2])
        relMeta == relMetaOf(obj, args[2])
    IN
    IF f.kind = "slice" THEN
      LET r == visitModelNodeRelationships(f.refs, 1, <<>>, inc, sideload, depth + 1) IN
      IF r.st # "ok" THEN r
      ELSE LET s == IF sideload
                    THEN sideloadMany(node, args[2], r.node, relLinks, relMeta, r.included)
                    ELSE embedMany(node, args[2], r.node, relLinks, relMeta, r.included)
           IN visitFields(model, i + 1, s.node, s.included, sideload, depth)
    ELSE IF f.isNil THEN
      visitFields(model, i + 1,
                  [node EXCEPT !.relationships = Put(@, args[2], nullRelationship)],
                  inc, sideload, depth)
    ELSE
      LET r == visitModelNode(f.refs[1], inc, sideload, depth + 1) IN
      IF r.st # "ok" THEN r
      ELSE LET s == IF sideload
                    THEN sideloadOne(node, args[2], r.node[1], relLinks, relMeta, r.included)
                    ELSE embedOne(node, args[2], r.node[1], relLinks, relMeta, r.included)
           IN visitFields(model, i + 1, s.node, s.included, sideload, depth)
  ELSE Fail(ErrBadJSONAPIStructTag, inc)


\* ------------------------------------------------- the payload assembler

OnePayload(nodes, inc) ==
  [kind |-> "one", data |-> nodes, included |-> inc, links |-> <<>>, meta |-> <<>>]

ManyPayload(nodes, inc) ==
  [kind |-> "many", data |-> nodes, included |-> inc, links |-> <<>>, meta |-> <<>>]

clearIncluded(p) == [p EXCEPT !.included = {}]

convertToSliceInterface(models) == models.roots

Done(st, err, p) == [st |-> st, err |-> err, payload |-> p]

\* One registry kept across calls instead of a map made per call.
sharedIncluded == included[1]

\* make(map[string]*Node): the registry a call starts from.
newIncluded == EmptyMap

marshalOne(model) ==
  LET r == visitModelNode(model, newIncluded, TRUE, 1) IN
  IF r.st # "ok" THEN Done(r.st, r.err, <<>>)
  ELSE Done("ok", "", <<OnePayload(r.node, nodeMapValues(r.included))>>)

\* A model that fails is left out and the loop goes on.
manyIterationSkipFailed(model, data, inc) ==
  LET r == visitModelNode(model, inc, TRUE, 1) IN
  [st |-> IF r.st = "err" THEN "ok" ELSE r.st, err |-> "",
   data |-> IF r.st = "ok" THEN data \o r.node ELSE data,
   included |-> r.included]

\* One pass of marshalMany's loop over the models.
manyIteration(model, data, inc) ==
  LET r == visitModelNode(model, inc, TRUE, 1) IN
  [st |-> r.st, err |-> r.err, data |-> IF r.st = "ok" THEN data \o r.node ELSE <<>>,
   included |-> r.included]

RECURSIVE marshalManyFrom(_, _, _, _)
marshalManyFrom(models, i, data, inc) ==
  IF i > Len(models) THEN Done("ok", "", <<ManyPayload(data, nodeMapValues(inc))>>)
  ELSE LET s == manyIteration(models[i], data, inc) IN
       IF s.st # "ok" THEN Done(s.st, s.err, <<>>)
       ELSE marshalManyFrom(models, i + 1, s.data, s.included)

marshalMany(models) == marshalManyFrom(models, 1, <<>>, newIncluded)

\* Marshal's slice case after marshalMany: the collection's own links and meta.
attachTopLevel(models, r) ==
  IF r.st # "ok" THEN r
  ELSE IF models.links # <<>> /\ validate(models.links) # ""
       THEN Done("err", validate(models.links), <<>>)
       ELSE Done("ok", "", <<[r.payload[1] EXCEPT !.links = models.links,
                                                  !.meta = models.meta]>>)

Marshal(models) ==
  IF models.shape = "slice"
  THEN attachTopLevel(models, marshalMany(convertToSliceInterface(models)))
  ELSE IF models.shape = "ptr"
       THEN IF models.roots[1] = NIL THEN Done("err", ErrUnexpectedType, <<>>)
            ELSE marshalOne(models.roots[1])
       ELSE Done("err", ErrUnexpectedType, <<>>)

\* The payload encoded as Marshal returned it.
afterMarshalKeepIncluded(r) == r

\* What reaches the writer: the encoded payload, or the error returned.
afterMarshalWithoutIncluded(r) ==
  IF r.st # "ok" THEN r ELSE Done("ok", "", <<clearIncluded(r.payload[1])>>)

MarshalPayloadWithoutIncludedResult(models) == afterMarshalWithoutIncluded(Marshal(models))

MarshalOnePayloadEmbeddedResult(model) ==
  LET r == visitModelNode(model, EmptyMap, FALSE, 1) IN
  IF r.st # "ok" THEN Done(r.st, r.err, <<>>)
  ELSE Done("ok", "", <<OnePayload(r.node, {})>>)


\* ------------------------------------------------------------ the inputs

Fld(tag, kind, ptr, isNil, num, str, refs) ==
  [tag |-> tag, kind |-> kind, ptr |-> ptr, isNil |-> isNil, num |-> num, str |-> str,
   refs |-> refs]

Untagged == Fld(<<>>, "string", FALSE, FALSE, 0, "internal", <<>>)
ToOne(tag, x) == Fld(tag, "ptr", TRUE, x = NIL, 0, "", <<x>>)
ToMany(tag, refs) == Fld(tag, "slice", FALSE, FALSE, 0, "", refs)
TimeFld(tag, ptr, isNil, t) == Fld(tag, "time", ptr, isNil, t, "", <<>>)

RelOne == <<annotationRelation, "one">>
RelMany == <<annotationRelation, "many">>
AttrCreated == <<annotationAttribute, "created">>

\* The struct every object of the inputs is an instance of, up to the field
\* under test: primary key, an untagged field, client id, two attributes, a
\* to-one and a to-many relationship.
Object(o, type, id, created, one, many) ==
  [fields |-> << Fld(<<annotationPrimary, type>>, "int64", FALSE, FALSE, id, "", <<>>),
                 Untagged,
                 Fld(<<annotationClientID>>, "string", FALSE, FALSE, 0,
                     IF o = "b" THEN "client-b" ELSE "", <<>>),
                 Fld(<<annotationAttribute, "name">>, "string", FALSE, FALSE, 0, o, <<>>),
                 created, one, many >>,
   links |-> IF o = "a" THEN <<"valid">> ELSE <<>>,
   meta |-> IF o = "b" THEN <<"meta">> ELSE <<>>,
   relLinkable |-> (o = "a"),
   relMetable |-> (o = "a")]

Plain(o, type, id, one, many) ==
  Object(o, type, id, TimeFld(AttrCreated, FALSE, FALSE, id),
         ToOne(RelOne, one), ToMany(RelMany \o <<annotationOmitEmpty>>, many))

\* Relationship graphs over three objects; c is b's twin (same type and id),
\* or differs from it in the id or in the type.
HeapsGraph ==
  { [o \in Objs |->
       CASE o = "a" -> Plain("a", "t", 1, oa, ma)
         [] o = "b" -> Plain("b", "t", 2, ob, <<>>)
         [] o = "c" -> Plain("c", kc[1], kc[2], oc, <<>>)] :
    oa \in {NIL, "b", "c"}, ob \in {NIL, "a", "c"}, oc \in {NIL, "a"},
    ma \in {<<>>, <<"b", "c">>, <<NIL, "c">>, <<"c", "c">>},
    kc \in {<<"t", 2>>, <<"t", 3>>, <<"u", 2>>} }

FaultKinds == {"tagfirst", "taglast", "cidargs", "unknown", "badid", "badlink", "nilpk",
               "nilpkfloat"}

Faulty(obj, k) ==
  CASE k = "none" -> obj
    [] k = "tagfirst" ->
         [obj EXCEPT !.fields = <<Fld(<<annotationAttribute>>, "string", FALSE, FALSE, 0, "x", <<>>)>> \o @]
    [] k = "taglast" ->
         [obj EXCEPT !.fields = @ \o <<Fld(<<annotationRelation>>, "ptr", TRUE, TRUE, 0, "", <<NIL>>)>>]
    [] k = "cidargs" ->
         [obj EXCEPT !.fields[3].tag = <<annotationClientID, "cid">>]
    [] k = "unknown" ->
         [obj EXCEPT !.fields = @ \o <<Fld(<<"bogus", "x">>, "string", FALSE, FALSE, 0, "x", <<>>)>>]
    [] k = "badid" -> [obj EXCEPT !.fields[1].kind = "float64"]
    [] k = "badlink" -> [obj EXCEPT !.links = <<"invalid">>]
    [] k = "nilpk" ->
         [obj EXCEPT !.fields[1] = Fld(@.tag, "string", TRUE, TRUE, 0, "", <<>>)]
    [] k = "nilpkfloat" ->
         [obj EXCEPT !.fields[1] = Fld(@.tag, "float64", TRUE, TRUE, 0, "", <<>>)]

FaultPlans ==
  { [o \in Objs |-> IF o = x THEN k ELSE "none"] : x \in Objs, k \in FaultKinds }
  \cup { [o \in Objs |-> CASE o = "a" -> "none" [] o = "b" -> kb [] o = "c" -> kc] :
         kb \in {"taglast", "badlink"}, kc \in {"badid", "tagfirst"} }

\* a -> b (to-one), a -> c (to-many), b -> c or back to a; faults planted.
HeapsFault ==
  { [o \in Objs |->
       Faulty(CASE o = "a" -> Plain("a", "t", 1, "b", <<"c">>)
                [] o = "b" -> Plain("b", "t", 2, ob, <<>>)
                [] o = "c" -> Plain("c", "t", 3, NIL, <<>>),
              plan[o])] :
    ob \in {"c", "a"}, plan \in FaultPlans }

Modifiers ==
  { <<>>, <<annotationOmitEmpty>>, <<annotationISO8601>>, <<annotationRFC3339>>,
    <<annotationOmitEmpty, annotationISO8601>>, <<annotationOmitEmpty, annotationRFC3339>>,
    <<annotationISO8601, annotationRFC3339>>, <<annotationRFC3339, annotationISO8601>>,
    <<annotationOmitEmpty, annotationISO8601, annotationRFC3339>>,
    <<"bogus", annotationOmitEmpty>> }

\* a's attribute under test is a time or an optional time, under every tag.
HeapsAttr ==
  { [o \in Objs |->
       CASE o = "a" -> Object("a", "t", 1, TimeFld(AttrCreated \o m, v[1], v[2], v[3]),
                              ToOne(RelOne, "b"), ToMany(RelMany, <<>>))
         [] o = "b" -> Plain("b", "t", 2, NIL, <<>>)
         [] o = "c" -> Plain("c", "t", 3, NIL, <<>>)] :
    m \in Modifiers,
    v \in {<<FALSE, FALSE, 0>>, <<FALSE, FALSE, 7>>, <<TRUE, TRUE, 0>>, <<TRUE, FALSE, 0>>,
           <<TRUE, FALSE, 7>>} }

RelModifiers == {<<>>, <<annotationOmitEmpty>>, <<"bogus", annotationOmitEmpty>>}

\* a's relationships under test: nil, empty and present, under every tag.
HeapsRel ==
  { [o \in Objs |->
       CASE o = "a" -> Object("a", "t", 1, TimeFld(AttrCreated, FALSE, FALSE, 1),
                              ToOne(RelOne \o m1, x), ToMany(RelMany \o m2, xs))
         [] o = "b" -> Plain("b", "t", 2, NIL, <<>>)
         [] o = "c" -> Plain("c", "t", 3, NIL, <<>>)] :
    m1 \in RelModifiers, m2 \in RelModifiers, x \in {NIL, "b"},
    xs \in {<<>>, <<"b">>, <<NIL, "b">>} }

\* Heaps on which two callers run at once.
HeapsShared ==
  { h \in HeapsGraph :
      /\ h["a"].fields[6].refs \in {<<"b">>, <<"c">>} /\ h["b"].fields[6].refs = <<"c">>
      /\ h["c"].fields[6].refs = <<NIL>> /\ h["a"].fields[7].refs = <<>>
      /\ h["c"].fields[1].num = 3 }

\* The root collections: up to MaxRoots distinct objects, in any order.
RootSeqs ==
  UNION { {rs \in [1..k -> Objs] : \A i \in 1..k : \A j \in 1..k : rs[i] = rs[j] => i = j} :
          k \in 0..MaxRoots }

\* What the collection type may implement: nothing, Linkable and Metable
\* with valid links, or Linkable with an invalid link.
TopLevel == { <<<<>>, <<>>>>, <<<<"valid">>, <<"meta">>>>, <<<<"invalid">>, <<>>>> }

Models(shape, roots, links, meta) ==
  [shape |-> shape, roots |-> roots, links |-> links, meta |-> meta]

\* What a caller may hand to Marshal: a struct pointer (nil or not), a
\* collection of struct pointers, or something that is neither.
Inputs ==
  { Models("ptr", <<x>>, <<>>, <<>>) : x \in Objs \cup {NIL} }
  \cup { Models("slice", rs, collection[1], collection[2]) : rs \in RootSeqs }
  \cup { Models("value", <<>>, <<>>, <<>>) }

NoInput == Models("none", <<>>, <<>>, <<>>)
NoResult == Done("none", "", <<>>)

Calls == {1, 2}

Init ==
  /\ \/ /\ heap \in HeapsGraph \cup HeapsAttr \cup HeapsRel
        /\ collection = <<<<>>, <<>>>>
        /\ callers = {1}
     \/ /\ heap \in HeapsFault
        /\ collection \in TopLevel
        /\ callers = {1}
     \/ /\ heap \in HeapsShared
        /\ collection = <<<<>>, <<>>>>
        /\ callers = Calls
  /\ pc = [c \in Calls |-> "idle"]
  /\ entry = [c \in Calls |-> "none"]
  /\ input = [c \in Calls |-> NoInput]
  /\ idx = [c \in Calls |-> 0]
  /\ payload = [c \in Calls |-> <<>>]
  /\ included = [c \in Calls |-> EmptyMap]
  /\ result = [c \in Calls |-> NoResult]

\* ----------------------------------------------------------- the calls

PcOf(r) == CASE r.st = "panic" -> "panicked" [] r.st = "diverge" -> "hung" [] OTHER -> "done"

\* A call that is over in one step: it ends with result r.
Finish(c, e, models, r) ==
  /\ pc' = [pc EXCEPT ![c] = PcOf(r)]
  /\ entry' = [entry EXCEPT ![c] = e]
  /\ input' = [input EXCEPT ![c] = models]
  /\ result' = [result EXCEPT ![c] = r]
  /\ UNCHANGED <<heap, collection, callers, idx, payload, included>>

\* Marshal on a collection: marshalMany's payload and registry are set up.
EnterMany(c, e, models) ==
  /\ pc' = [pc EXCEPT ![c] = "many"]
  /\ entry' = [entry EXCEPT ![c] = e]
  /\ input' = [input EXCEPT ![c] = models]
  /\ idx' = [idx EXCEPT ![c] = 1]
  /\ payload' = [payload EXCEPT ![c] = <<>>]
  /\ included' = [included EXCEPT ![c] = newIncluded]
  /\ UNCHANGED <<heap, collection, callers, result>>

CallMarshal(c, models) ==
  /\ pc[c] = "idle"
  /\ IF models.shape = "slice"
     THEN EnterMany(c, "Marshal", models)
     ELSE Finish(c, "Marshal", models, Marshal(models))

CallMarshalPayloadWithoutIncluded(c, models) ==
  /\ pc[c] = "idle"
  /\ IF models.shape = "slice"
     THEN EnterMany(c, "WithoutIncluded", models)
     ELSE Finish(c, "WithoutIncluded", models, MarshalPayloadWithoutIncludedResult(models))

CallMarshalOnePayloadEmbedded(c, models) ==
  /\ pc[c] = "idle"
  /\ models.shape = "ptr"
  /\ Finish(c, "Embedded", models, MarshalOnePayloadEmbeddedResult(models.roots[1]))

\* One pass of marshalMany's loop.
MarshalManyStep(c) ==
  /\ pc[c] = "many"
  /\ idx[c] <= Len(input[c].roots)
  /\ LET s == manyIteration(convertToSliceInterface(input[c])[idx[c]], payload[c], included[c])
     IN IF s.st = "ok"
        THEN /\ payload' = [payload EXCEPT ![c] = s.data]
             /\ included' = [included EXCEPT ![c] = s.included]
             /\ idx' = [idx EXCEPT ![c] = @ + 1]
             /\ UNCHANGED <<pc, result>>
        ELSE /\ result' = [result EXCEPT ![c] = Done(s.st, s.err, <<>>)]
             /\ pc' = [pc EXCEPT ![c] = PcOf(s)]
             /\ payload' = [payload EXCEPT ![c] = <<>>]
             /\ included' = [included EXCEPT ![c] = EmptyMap]
             /\ idx' = [idx EXCEPT ![c] = 0]
  /\ UNCHANGED <<heap, collection, callers, entry, input>>

\* The loop is over: marshalMany returns, Marshal attaches the collection's
\* links and meta, and MarshalPayloadWithoutIncluded clears the included list.
MarshalManyReturn(c) ==
  /\ pc[c] = "many"
  /\ idx[c] > Len(input[c].roots)
  /\ LET m == attachTopLevel(input[c],
                Done("ok", "", <<ManyPayload(payload[c], nodeMapValues(included[c]))>>))
         r == IF entry[c] = "WithoutIncluded" THEN afterMarshalWithoutIncluded(m) ELSE m
     IN result' = [result EXCEPT ![c] = r]
  /\ pc' = [pc EXCEPT ![c] = "done"]
  /\ payload' = [payload EXCEPT ![c] = <<>>]
  /\ included' = [included EXCEPT ![c] = EmptyMap]
  /\ idx' = [idx EXCEPT ![c] = 0]
  /\ UNCHANGED <<heap, collection, callers, entry, input>>

\* The caller has read the result and is ready for its next call.
Return(c) ==
  /\ pc[c] = "done"
  /\ pc' = [pc EXCEPT ![c] = "idle"]
  /\ entry' = [entry EXCEPT ![c] = "none"]
  /\ input' = [input EXCEPT ![c] = NoInput]
  /\ result' = [result EXCEPT ![c] = NoResult]
  /\ UNCHANGED <<heap, collection, callers, idx, payload, included>>

Next ==
  \E c \in callers :
    \/ \E models \in Inputs : CallMarshal(c, models)
    \/ \E models \in Inputs : CallMarshalPayloadWithoutIncluded(c, models)
    \/ \E models \in Inputs : CallMarshalOnePayloadEmbedded(c, models)
    \/ MarshalManyStep(c)
    \/ MarshalManyReturn(c)
    \/ Return(c)

Spec == Init /\ [][Next]_vars
\* ------------------------------------------- the input graph, read directly

IsRelation(f) == f.tag # <<>> /\ f.tag[1] = annotationRelation /\ Len(f.tag) >= 2

\* The objects the relationship fields of x refer to.
Targets(x) ==
  UNION { {heap[x].fields[i].refs[j] : j \in DOMAIN heap[x].fields[i].refs} \ {NIL} :
          i \in {i \in DOMAIN heap[x].fields : IsRelation(heap[x].fields[i])} }

RECURSIVE ReachFrom(_)
ReachFrom(S) ==
  LET N == S \cup UNION {Targets(x) : x \in S} IN IF N = S THEN S ELSE ReachFrom(N)

RootSet(models) == {models.roots[i] : i \in DOMAIN models.roots} \ {NIL}

\* Every object some relationship reaches, at any depth, from the roots.
RelTargets(roots) == UNION {Targets(x) : x \in ReachFrom(roots)}

Cyclic(roots) == \E x \in ReachFrom(roots) : x \in ReachFrom(Targets(x))

\* The (type, id) an object is known by, read off its primary field.
KeyOf(x) ==
  LET P == {i \in DOMAIN heap[x].fields :
              heap[x].fields[i].tag # <<>> /\ heap[x].fields[i].tag[1] = annotationPrimary}
  IN IF P = {} THEN <<"", "">>
     ELSE LET f == heap[x].fields[CHOOSE i \in P : TRUE]
          IN <<f.tag[2], IF f.kind = "string" THEN f.str ELSE ToString(f.num)>>

\* The relationship edges met from the roots: <<object, field, position>>.
Edges(roots) ==
  UNION { UNION { { <<x, i, j>> : j \in {j \in DOMAIN heap[x].fields[i].refs :
                                           heap[x].fields[i].refs[j] # NIL} } :
                  i \in {i \in DOMAIN heap[x].fields : IsRelation(heap[x].fields[i])} } :
          x \in ReachFrom(roots) }

EdgeKey(e) == KeyOf(heap[e[1]].fields[e[2]].refs[e[3]])

\* The fault of one field, if any, without building anything.
FieldOutcome(f) ==
  IF f.tag = <<>> THEN "none"
  ELSE IF BadTag(f.tag) THEN ErrBadJSONAPIStructTag
  ELSE IF f.tag[1] = annotationPrimary
       THEN IF f.kind \notin ({"string"} \cup IntKinds \cup UintKinds) THEN ErrBadJSONAPIID
            ELSE IF f.ptr /\ f.isNil THEN "panic" ELSE "none"
  ELSE IF f.tag[1] \in {annotationClientID, annotationAttribute, annotationRelation} THEN "none"
  ELSE ErrBadJSONAPIStructTag

RECURSIVE FirstOutcome(_, _, _)
\* How a depth-first walk of the fields of the objects xs, in order, ends:
\* "none", the first error, "panic", or "diverge".  i is the next field of
\* the first object.
FirstOutcome(xs, i, depth) ==
  IF xs = <<>> THEN "none"
  ELSE IF Head(xs) = NIL THEN FirstOutcome(Tail(xs), 1, depth)
  ELSE IF depth > MaxDepth THEN "diverge"
  ELSE LET obj == heap[Head(xs)] IN
       IF i > Len(obj.fields)
       THEN IF obj.links = <<"invalid">> THEN ErrInvalidLink
            ELSE FirstOutcome(Tail(xs), 1, depth)
       ELSE LET here == FieldOutcome(obj.fields[i])
                below == IF IsRelation(obj.fields[i])
                         THEN FirstOutcome(obj.fields[i].refs, 1, depth + 1)
                         ELSE "none"
            IN IF here # "none" THEN here
               ELSE IF below # "none" THEN below
               ELSE FirstOutcome(xs, i + 1, depth)

\* How Marshal on these models is expected to end.
ExpectedOutcome(models) ==
  IF models.shape = "slice"
  THEN LET o == FirstOutcome(models.roots, 1, 1) IN
       IF o # "none" THEN o
       ELSE IF models.links = <<"invalid">> THEN ErrInvalidLink ELSE "none"
  ELSE IF models.shape = "ptr" /\ models.roots[1] # NIL
       THEN FirstOutcome(models.roots, 1, 1)
       ELSE ErrUnexpectedType

Finished(c) == pc[c] \in {"done", "panicked", "hung"}
Succeeded(c) == pc[c] = "done" /\ result[c].st = "ok"
Doc(c) == result[c].payload[1]

\* Every node of a document: the roots and the included ones.
DocNodes(p) == {p.data[i] : i \in DOMAIN p.data} \cup p.included

\* What the relationship entries of node n carry as data.
RelData(n) ==
  UNION { {n.relationships[k].data[j] : j \in DOMAIN n.relationships[k].data} :
          k \in DOMAIN n.relationships }

IsReference(d) ==
  /\ DOMAIN d.attributes = {} /\ DOMAIN d.relationships = {}
  /\ d.links = <<>> /\ d.meta = <<>>


NonNil(refs) == SelectSeq(refs, LAMBDA t : t # NIL)

\* The root of a call on a single non-nil struct pointer.
SingleRoot(c) == input[c].shape = "ptr" /\ input[c].roots[1] # NIL
RootObj(c) == heap[input[c].roots[1]]
RootNode(c) == Doc(c).data[1]

NoFaults(S) ==
  \A x \in S : /\ heap[x].links # <<"invalid">>
               /\ \A i \in DOMAIN heap[x].fields : FieldOutcome(heap[x].fields[i]) = "none"

\* ------------------------------------------------------------ the claims

\* C1: in sideload mode, when two or more relationship edges met from the
\* roots point to objects with the same (type, id), the included list holds
\* exactly one node with that (type, id) and every relationship entry that
\* names it carries an identifier-only reference.
C1_SharedTargetIncludedOnce ==
  \A c \in Calls : (Succeeded(c) /\ entry[c] = "Marshal") =>
    LET es == Edges(RootSet(input[c]))
        shared == {EdgeKey(e) : e \in {e \in es : \E e2 \in es : e2 # e /\ EdgeKey(e2) = EdgeKey(e)}}
    IN \A k \in shared :
         /\ Cardinality({n \in Doc(c).included : Key(n) = k}) = 1
         /\ \E n \in DocNodes(Doc(c)) : \E d \in RelData(n) : Key(d) = k
         /\ \A n \in DocNodes(Doc(c)) : \A d \in RelData(n) : Key(d) = k => IsReference(d)

\* Two distinct roots of a collection refer to the same (type, id).
C1_Witness ==
  \E c \in Calls :
    /\ Succeeded(c) /\ entry[c] = "Marshal" /\ input[c].shape = "slice"
    /\ \E e1 \in Edges(RootSet(input[c])) : \E e2 \in Edges(RootSet(input[c])) :
         /\ e1[1] # e2[1] /\ e1[1] \in RootSet(input[c]) /\ e2[1] \in RootSet(input[c])
         /\ EdgeKey(e1) = EdgeKey(e2)
         /\ heap[e1[1]].fields[e1[2]].refs[e1[3]] # heap[e2[1]].fields[e2[2]].refs[e2[3]]

\* The node MarshalOnePayloadEmbedded renders for object t as a root.
EmbeddedNode(t) == MarshalOnePayloadEmbeddedResult(t).payload[1].data[1]

\* C2: MarshalOnePayloadEmbedded produces no included list, and every
\* non-nil relationship target is nested in full at the relationship site,
\* once per reference.
C2_EmbeddedNestsFullNodes ==
  \A c \in Calls : (Succeeded(c) /\ entry[c] = "Embedded" /\ SingleRoot(c)) =>
    /\ Doc(c).included = {}
    /\ \A i \in DOMAIN RootObj(c).fields :
         LET f == RootObj(c).fields[i]
             ts == NonNil(f.refs)
         IN (IsRelation(f) /\ ts # <<>>) =>
              /\ f.tag[2] \in DOMAIN RootNode(c).relationships
              /\ RootNode(c).relationships[f.tag[2]].data =
                   [j \in 1..Len(ts) |-> EmbeddedNode(ts[j])]
              /\ \A d \in RelData(RootNode(c)) : ~IsReference(d)

\* An embedded document in which one resource is rendered twice.
C2_Witness ==
  \E c \in Calls :
    /\ Succeeded(c) /\ entry[c] = "Embedded" /\ SingleRoot(c)
    /\ \E k1 \in DOMAIN RootNode(c).relationships :
         \E k2 \in DOMAIN RootNode(c).relationships :
           /\ k1 # k2
           /\ \E d \in DOMAIN RootNode(c).relationships[k1].data :
                /\ RootNode(c).relationships[k1].data[d] \in
                     {RootNode(c).relationships[k2].data[j] :
                        j \in DOMAIN RootNode(c).relationships[k2].data}
                /\ DOMAIN RootNode(c).relationships[k1].data[d].relationships # {}

\* C3: a nil to-one relationship gives, without omitempty in its tag, an
\* entry with null data and no links or meta, and with omitempty in its tag
\* no key at all, in sideload and in embedded mode.
C3_NilToOne ==
  \A c \in Calls : (Succeeded(c) /\ SingleRoot(c)) =>
    \A i \in DOMAIN RootObj(c).fields :
      LET f == RootObj(c).fields[i] IN
      (IsRelation(f) /\ f.kind = "ptr" /\ f.isNil) =>
        IF HasModifier(f.tag, annotationOmitEmpty)
        THEN f.tag[2] \notin DOMAIN RootNode(c).relationships
        ELSE /\ f.tag[2] \in DOMAIN RootNode(c).relationships
             /\ RootNode(c).relationships[f.tag[2]] = nullRelationship

\* C4: Marshal returns either a payload and no error, or the first error of
\* the traversal and no payload; nothing is returned while it runs.
C4_AllOrNothing ==
  \A c \in Calls : entry[c] = "Marshal" =>
    /\ pc[c] = "many" => result[c] = NoResult
    /\ Finished(c) =>
         /\ result[c].st = "err" =>
              result[c].payload = <<>> /\ result[c].err = ExpectedOutcome(input[c])
         /\ ExpectedOutcome(input[c]) \notin {"none", "panic", "diverge"} =>
              result[c].st = "err"
         /\ result[c].st = "ok" =>
              ExpectedOutcome(input[c]) = "none" /\ Len(result[c].payload) = 1

\* The second root of a collection fails below its own fields, after the
\* first root was built.
C4_Witness ==
  \E c \in Calls :
    /\ entry[c] = "Marshal" /\ Finished(c) /\ result[c].st = "err"
    /\ Len(input[c].roots) = 2
    /\ FirstOutcome(<<input[c].roots[1]>>, 1, 1) = "none"
    /\ NoFaults({input[c].roots[2]})

\* C5: an attribute whose value is the zero time puts no key in the
\* attribute map, whatever modifiers its tag has.
C5_ZeroTimeOmitted ==
  \A c \in Calls : (Succeeded(c) /\ SingleRoot(c)) =>
    \A i \in DOMAIN RootObj(c).fields :
      LET f == RootObj(c).fields[i] IN
      (f.tag # <<>> /\ f.tag[1] = annotationAttribute /\ f.kind = "time" /\ ~f.ptr /\ f.num = 0)
        => f.tag[2] \notin DOMAIN RootNode(c).attributes

\* A zero time under a tag that has a format modifier and no omitempty.
C5_Witness ==
  \E c \in Calls :
    /\ Succeeded(c) /\ SingleRoot(c)
    /\ \E i \in DOMAIN RootObj(c).fields :
         LET f == RootObj(c).fields[i] IN
         /\ f.tag # <<>> /\ f.tag[1] = annotationAttribute /\ f.kind = "time" /\ ~f.ptr
         /\ f.num = 0
         /\ HasModifier(f.tag, annotationRFC3339)
         /\ ~HasModifier(f.tag, annotationOmitEmpty)
         /\ DOMAIN RootNode(c).attributes # {}

\* C6: a primary field that is a nil pointer makes the node builder return
\* an error, and the call ends in no other way.
C6_NilPrimaryIsError ==
  \A c \in Calls : (Finished(c) /\ SingleRoot(c)) =>
    LET f == RootObj(c).fields[1] IN
    (f.tag # <<>> /\ f.tag[1] = annotationPrimary /\ f.ptr /\ f.isNil) =>
      result[c].st = "err" /\ result[c].payload = <<>>

KeysOf(S) == {KeyOf(x) : x \in S}

\* The roots a call on a collection has built so far.
RootsDone(c) == {input[c].roots[i] : i \in 1..(idx[c] - 1)}

\* C8: the registry of a call holds what the relationships of that call's
\* own input reach and nothing else, whatever other calls have registered
\* or are registering, and a later call includes again what an earlier one
\* included.
C8_RegistryPerCall ==
  \A c \in Calls :
    /\ pc[c] = "many" => DOMAIN included[c] = KeysOf(RelTargets(RootsDone(c)))
    /\ (Succeeded(c) /\ entry[c] = "Marshal") =>
         /\ {Key(n) : n \in Doc(c).included} \subseteq KeysOf(RelTargets(RootSet(input[c])))
         /\ \A d \in Calls :
              (d # c /\ Succeeded(d) /\ entry[d] = "Marshal") =>
                \A n \in Doc(d).included :
                  Key(n) \in KeysOf(RelTargets(RootSet(input[c]))) =>
                    \E n2 \in Doc(c).included : Key(n2) = Key(n)

\* One call is between two roots, with a resource registered, while another
\* has returned a document that includes the same resource.
C8_Witness ==
  \E c \in Calls : \E d \in Calls :
    /\ c # d
    /\ pc[c] = "many" /\ DOMAIN included[c] # {}
    /\ Succeeded(d) /\ entry[d] = "Marshal"
    /\ \E n \in Doc(d).included : Key(n) \in DOMAIN included[c]
    /\ \E n \in Doc(d).included : Key(n) \notin DOMAIN included[c]

\* C9: in a document Marshal returns, every reference in relationship data
\* has a node of the same (type, id) in the included list, and the included
\* list holds exactly the (type, id) of the non-nil relationship targets
\* reached from the roots.
C9_ReferentialIntegrity ==
  \A c \in Calls : (Succeeded(c) /\ entry[c] = "Marshal") =>
    /\ \A n \in DocNodes(Doc(c)) : \A d \in RelData(n) :
         IsReference(d) /\ \E m \in Doc(c).included : Key(m) = Key(d)
    /\ {Key(n) : n \in Doc(c).included} = KeysOf(RelTargets(RootSet(input[c])))

\* A reference inside an included node, to a node that is included too.
C9_Witness ==
  \E c \in Calls :
    /\ Succeeded(c) /\ entry[c] = "Marshal"
    /\ \E n \in Doc(c).included : \E d \in RelData(n) :
         \E m \in Doc(c).included : Key(m) = Key(d) /\ m # n

Traversing(c) ==
  /\ entry[c] \in {"Marshal", "Embedded"}
  /\ input[c].shape \in {"ptr", "slice"}
  /\ RootSet(input[c]) # {}
  /\ Finished(c)

====
